---- MODULE Spec2Model ----
(***************************************************************************)
(* Model of package xdg (src/xdg.go): resolution of the XDG base           *)
(* directories from the process environment by init(), and the Find* and   *)
(* Merge* lookups over the resolved layout.                                *)
(*                                                                         *)
(* A Go string is a sequence of one-character strings, so that             *)
(* path.IsAbs, strings.Contains, strings.Replace and strings.Split are     *)
(* computed character by character as the library computes them.           *)
(***************************************************************************)
EXTENDS Naturals, Sequences, FiniteSets, TLC

VARIABLES env, pc, home, ConfigHome, DataHome, CacheHome, RuntimeDir,
          ConfigDirs, DataDirs, Errors, op

vars == <<env, pc, home, ConfigHome, DataHome, CacheHome, RuntimeDir,
          ConfigDirs, DataDirs, Errors, op>>

layout == <<env, pc, home, ConfigHome, DataHome, CacheHome, RuntimeDir,
            ConfigDirs, DataDirs, Errors>>

(***************************************************************************)
(* Bounds.                                                                 *)
(***************************************************************************)
\* Longest total length of the two *_DIRS environment values.
MaxLen == 3

(***************************************************************************)
(* Strings.                                                                *)
(***************************************************************************)
\* path.IsAbs: the path begins with a slash.
IsAbs(s) == Len(s) > 0 /\ s[1] = "/"

\* strings.HasPrefix, used by Contains and Replace below.
HasPrefix(s, pre) == Len(s) >= Len(pre) /\ SubSeq(s, 1, Len(pre)) = pre

\* strings.Contains(s, sub)
Contains(s, sub) == \E i \in 1..(Len(s) + 1) : HasPrefix(SubSeq(s, i, Len(s)), sub)

\* strings.Replace(s, old, new, -1), old non-empty: every non-overlapping
\* instance of old, left to right.
RECURSIVE Replace(_, _, _)
Replace(s, old, new) ==
    IF s = <<>> THEN <<>>
    ELSE IF HasPrefix(s, old)
         THEN new \o Replace(SubSeq(s, Len(old) + 1, Len(s)), old, new)
         ELSE <<Head(s)>> \o Replace(Tail(s), old, new)

\* strings.Split(s, sep) for a one-character sep: the substrings between the
\* separators, empty ones included; one (empty) substring for the empty s.
RECURSIVE Split(_, _)
Split(s, sep) ==
    IF \A i \in 1..Len(s) : s[i] # sep THEN <<s>>
    ELSE LET k == CHOOSE i \in 1..Len(s) :
                      s[i] = sep /\ \A j \in 1..(i - 1) : s[j] # sep
         IN  <<SubSeq(s, 1, k - 1)>> \o Split(SubSeq(s, k + 1, Len(s)), sep)

\* The literals of the source.
HOMEVAR == <<"$", "H", "O", "M", "E">>
DefConfigHome == HOMEVAR \o <<"/", ".", "c", "o", "n", "f", "i", "g">>
DefDataHome == HOMEVAR \o <<"/", ".", "c", "o", "n", "f", "i", "g">>
DefCacheHome == HOMEVAR \o <<"/", ".", "c", "o", "n", "f", "i", "g">>
DefRuntimeDir == <<>>
DefConfigDirs == <<"/", "e", "t", "c", "/", "x", "d", "g">>
DefDataDirs ==
    <<"/", "u", "s", "r", "/", "l", "o", "c", "a", "l", "/", "s", "h", "a", "r", "e",
      ":", "/", "u", "s", "r", "/", "s", "h", "a", "r", "e">>

(***************************************************************************)
(* Errors.                                                                 *)
(***************************************************************************)
\* errors.New(msg + name + sep + elem): the message kept in its parts.
errorsNew(msg, name, elem) == [msg |-> msg, name |-> name, elem |-> elem]

ErrHomeInvalid ==
    errorsNew("environment variable HOME is invalid or not set", "", <<>>)

ErrNoValue(name) == errorsNew("no value set for ", name, <<>>)

ErrIgnoring(name, x) == errorsNew("ignoring ", name, x)

\* The values a MergeFunc returns: nil, Skip, or an error of the callback's.
Skip == "Skip"
Outcomes == {"nil", Skip, "e1", "e2"}

(***************************************************************************)
(* Resolution: init() and its helpers.                                     *)
(***************************************************************************)
\* os.Getenv: the value, empty when the variable is unset.
Getenv(e, name) == e[name]

\* The first statements of init(): home and the errors appended for it.
initHome(e) ==
    LET h == Getenv(e, "HOME")
    IN  IF IsAbs(h)
        THEN [home |-> <<>>, errs |-> <<ErrHomeInvalid>>]
        ELSE [home |-> h, errs |-> <<>>]

\* xdgPath with the test of home dropped: $HOME is replaced even when home is
\* empty, which leaves the partial path "/.config".
xdgPathPartial(e, h, name, def) ==
    LET x0 == Getenv(e, name)
        x  == IF x0 = <<>>
              THEN IF Contains(def, HOMEVAR)
                   THEN Replace(def, HOMEVAR, h)
                   ELSE def
              ELSE x0
    IN  IF IsAbs(x)
        THEN [ret |-> x, errs |-> <<>>]
        ELSE [ret |-> <<>>, errs |-> <<ErrNoValue(name)>>]

\* xdgPath with the test of path.IsAbs dropped: any non-empty candidate is
\* returned as it is.
xdgPathUnchecked(e, h, name, def) ==
    LET x0 == Getenv(e, name)
        x  == IF x0 = <<>>
              THEN IF Contains(def, HOMEVAR)
                   THEN IF h # <<>> THEN Replace(def, HOMEVAR, h) ELSE x0
                   ELSE def
              ELSE x0
    IN  IF x # <<>>
        THEN [ret |-> x, errs |-> <<>>]
        ELSE [ret |-> <<>>, errs |-> <<ErrNoValue(name)>>]

\* xdgPath(env, def) string, reading the global home h: the value returned
\* and the errors appended to Errors.
xdgPath(e, h, name, def) ==
    LET x0 == Getenv(e, name)
        x  == IF x0 = <<>>
              THEN IF Contains(def, HOMEVAR)
                   THEN IF h # <<>> THEN Replace(def, HOMEVAR, h) ELSE x0
                   ELSE def
              ELSE x0
    IN  IF IsAbs(x)
        THEN [ret |-> x, errs |-> <<>>]
        ELSE [ret |-> <<>>, errs |-> <<ErrNoValue(name)>>]

\* The loop with break in place of the else branch's fall-through: the first
\* rejected segment ends it.
RECURSIVE xdgPathsLoopBreak(_, _)
xdgPathsLoopBreak(segs, name) ==
    IF segs = <<>> THEN [ret |-> <<>>, errs |-> <<>>]
    ELSE LET x    == Head(segs)
             rest == xdgPathsLoopBreak(Tail(segs), name)
         IN  IF IsAbs(x)
             THEN [ret |-> <<x>> \o rest.ret, errs |-> rest.errs]
             ELSE [ret |-> <<>>, errs |-> <<ErrIgnoring(name, x)>>]

\* The loop of xdgPath(env, def) []string over the split segments.
RECURSIVE xdgPathsLoop(_, _)
xdgPathsLoop(segs, name) ==
    IF segs = <<>> THEN [ret |-> <<>>, errs |-> <<>>]
    ELSE LET x    == Head(segs)
             rest == xdgPathsLoop(Tail(segs), name)
         IN  IF IsAbs(x)
             THEN [ret |-> <<x>> \o rest.ret, errs |-> rest.errs]
             ELSE [ret |-> rest.ret, errs |-> <<ErrIgnoring(name, x)>> \o rest.errs]

\* xdgPath(env, def) []string, which init() calls as xdgPaths.
xdgPaths(e, name, def) ==
    LET xs0 == Getenv(e, name)
        xs  == IF xs0 = <<>> THEN def ELSE xs0
    IN  xdgPathsLoop(Split(xs, ":"), name)

\* func init(): the whole resolution, in the order of its statements.
init ==
    /\ pc = "start"
    /\ LET h  == initHome(env)
           c  == xdgPath(env, h.home, "XDG_CONFIG_HOME", DefConfigHome)
           d  == xdgPath(env, h.home, "XDG_DATA_HOME", DefDataHome)
           k  == xdgPath(env, h.home, "XDG_CACHE_HOME", DefCacheHome)
           r  == xdgPath(env, h.home, "XDG_RUNTIME_DIR", DefRuntimeDir)
           cs == xdgPaths(env, "XDG_CONFIG_DIRS", DefConfigDirs)
           ds == xdgPaths(env, "XDG_DATA_DIRS", DefDataDirs)
       IN  /\ home' = h.home
           /\ ConfigHome' = c.ret
           /\ DataHome' = d.ret
           /\ CacheHome' = k.ret
           /\ RuntimeDir' = r.ret
           /\ ConfigDirs' = cs.ret
           /\ DataDirs' = ds.ret
           /\ Errors' = Errors \o h.errs \o c.errs \o d.errs \o k.errs
                               \o r.errs \o cs.errs \o ds.errs
    /\ pc' = "ready"
    /\ UNCHANGED <<env, op>>

(***************************************************************************)
(* The environments the process is started in.                             *)
(***************************************************************************)
\* HOME: unset, absolute, relative.
HomeValues == {<<>>, <<"/", "h">>, <<"h">>}

\* An XDG_*_HOME or XDG_RUNTIME_DIR value: unset, absolute, relative.
ScalarValues == {<<>>, <<"/", "x">>, <<"x">>}

\* The characters of a *_DIRS value: the separator, the slash, a letter.
DirChars == {":", "/", "a"}

RECURSIVE Strs(_)
Strs(n) ==
    IF n = 0 THEN {<<>>}
    ELSE LET shorter == Strs(n - 1)
         IN  shorter \cup {Append(s, ch) : s \in shorter, ch \in DirChars}

\* No call made yet.
NoOp == [name |-> "none", p |-> <<>>, fs |-> {}, f |-> <<>>, calls |-> <<>>,
         err |-> "nil", out |-> <<>>]

\* The package variables before init() runs: Go's zero values.
Zero ==
    /\ pc = "start"
    /\ home = <<>>
    /\ ConfigHome = <<>>
    /\ DataHome = <<>>
    /\ CacheHome = <<>>
    /\ RuntimeDir = <<>>
    /\ ConfigDirs = <<>>
    /\ DataDirs = <<>>
    /\ Errors = <<>>
    /\ op = NoOp

InitResolve ==
    /\ \E h \in HomeValues, c \in ScalarValues, d \in ScalarValues,
          k \in ScalarValues, r \in ScalarValues,
          cs \in Strs(MaxLen), ds \in Strs(MaxLen) :
          /\ Len(cs) + Len(ds) <= MaxLen
          /\ env = [HOME |-> h, XDG_CONFIG_HOME |-> c, XDG_DATA_HOME |-> d,
                    XDG_CACHE_HOME |-> k, XDG_RUNTIME_DIR |-> r,
                    XDG_CONFIG_DIRS |-> cs, XDG_DATA_DIRS |-> ds]
    /\ Zero

NextResolve == init

SpecResolve == InitResolve /\ [][NextResolve]_vars

(***************************************************************************)
(* Lookup: the Find* and Merge* functions over the resolved layout.        *)
(*                                                                         *)
(* The file system is an input of each call: fs is the set of paths that   *)
(* exist when the call is made.  A MergeFunc is given by the outcomes of   *)
(* its successive invocations: f[i] is what its i-th invocation returns.   *)
(* op holds the last call and its result until the caller has used it.     *)
(***************************************************************************)
\* The relative file names looked up.
Suffixes == {<<"f">>}

\* root/suffix
Join(root, p) == root \o <<"/">> \o p

RECURSIVE Reverse(_)
Reverse(s) == IF s = <<>> THEN <<>> ELSE Append(Reverse(Tail(s)), Head(s))

\* find(p, paths...): the existing root/p of the non-empty roots, in the
\* order of paths.
RECURSIVE find(_, _, _)
find(p, paths, fs) ==
    IF paths = <<>> THEN <<>>
    ELSE LET root == Head(paths)
             rest == find(p, Tail(paths), fs)
         IN  IF root # <<>> /\ Join(root, p) \in fs
             THEN <<Join(root, p)>> \o rest
             ELSE rest

\* findR(p, paths...): the same paths from the last root to the first.
findR(p, paths, fs) == Reverse(find(p, paths, fs))

\* The loop that goes on after Skip.
RECURSIVE mergeLoopNoSkip(_, _, _)
mergeLoopNoSkip(found, f, i) ==
    IF i > Len(found) THEN [calls |-> <<>>, err |-> "nil"]
    ELSE IF f[i] \notin {"nil", Skip}
         THEN [calls |-> <<found[i]>>, err |-> f[i]]
         ELSE LET rest == mergeLoopNoSkip(found, f, i + 1)
              IN  [calls |-> <<found[i]>> \o rest.calls,
                   err |-> IF i = Len(found) THEN f[i] ELSE rest.err]

\* The for loop of merge and mergeR from the i-th found path on: the paths f
\* was invoked on, and err when the loop ends.
RECURSIVE mergeLoop(_, _, _)
mergeLoop(found, f, i) ==
    IF i > Len(found) THEN [calls |-> <<>>, err |-> "nil"]
    ELSE IF f[i] # "nil"
         THEN [calls |-> <<found[i]>>, err |-> f[i]]
         ELSE LET rest == mergeLoop(found, f, i + 1)
              IN  [calls |-> <<found[i]>> \o rest.calls, err |-> rest.err]

\* The end that swallows every error.
mergeReturnNil(err) == "nil"

\* The end of merge and mergeR: Skip is not an error.
mergeReturn(err) == IF err = Skip THEN "nil" ELSE err

\* merge(p, f, paths...)
merge(p, f, paths, fs) ==
    LET r == mergeLoop(find(p, paths, fs), f, 1)
    IN  [calls |-> r.calls, err |-> mergeReturn(r.err)]

\* mergeR ranging over find in place of findR.
mergeRForward(p, f, paths, fs) ==
    LET r == mergeLoop(find(p, paths, fs), f, 1)
    IN  [calls |-> r.calls, err |-> mergeReturn(r.err)]

\* mergeR(p, f, paths...)
mergeR(p, f, paths, fs) ==
    LET r == mergeLoop(findR(p, paths, fs), f, 1)
    IN  [calls |-> r.calls, err |-> mergeReturn(r.err)]

MergeDataFiles(p, f, fs) == merge(p, f, <<DataHome>> \o DataDirs, fs)
MergeDataFilesR(p, f, fs) == mergeR(p, f, <<DataHome>> \o DataDirs, fs)
MergeConfigFiles(p, f, fs) == merge(p, f, <<ConfigHome>> \o ConfigDirs, fs)
MergeConfigFilesR(p, f, fs) == mergeR(p, f, <<ConfigHome>> \o ConfigDirs, fs)

\* The Find* functions: each returns its zero value.
FindConfigFiles(p) == <<>>
FindDataFiles(p) == <<>>
FindConfigFile(p) == <<>>
FindDataFile(p) == <<>>
FindCacheFile(p) == <<>>
FindRuntimeFile(p) == <<>>

\* The roots each class of file is looked up under.
ConfigRoots == <<ConfigHome>> \o ConfigDirs
DataRoots == <<DataHome>> \o DataDirs
CacheRoots == <<CacheHome>>
RuntimeRoots == <<RuntimeDir>>

\* The files that may exist under the roots.
Candidates(p, roots) ==
    {Join(roots[i], p) : i \in {j \in DOMAIN roots : roots[j] # <<>>}}

\* The behaviours of a MergeFunc invoked at most n times.
Callbacks(n) == [1..n -> Outcomes]

\* init() has run and the caller holds no result: it may make a call.
Idle == pc = "ready" /\ op = NoOp

\* A call of a Find* function that returned out.
Found(name, p, fs, out) ==
    op' = [name |-> name, p |-> p, fs |-> fs, f |-> <<>>, calls |-> <<>>,
           err |-> "nil", out |-> out]

\* A call of a Merge* function with the result r.
Merged(name, p, fs, f, r) ==
    op' = [name |-> name, p |-> p, fs |-> fs, f |-> f, calls |-> r.calls,
           err |-> r.err, out |-> <<>>]

CallFindConfigFiles ==
    /\ Idle
    /\ \E p \in Suffixes : \E fs \in SUBSET Candidates(p, ConfigRoots) :
           Found("FindConfigFiles", p, fs, FindConfigFiles(p))
    /\ UNCHANGED layout

CallFindDataFiles ==
    /\ Idle
    /\ \E p \in Suffixes : \E fs \in SUBSET Candidates(p, DataRoots) :
           Found("FindDataFiles", p, fs, FindDataFiles(p))
    /\ UNCHANGED layout

CallFindConfigFile ==
    /\ Idle
    /\ \E p \in Suffixes : \E fs \in SUBSET Candidates(p, ConfigRoots) :
           Found("FindConfigFile", p, fs, FindConfigFile(p))
    /\ UNCHANGED layout

CallFindDataFile ==
    /\ Idle
    /\ \E p \in Suffixes : \E fs \in SUBSET Candidates(p, DataRoots) :
           Found("FindDataFile", p, fs, FindDataFile(p))
    /\ UNCHANGED layout

CallFindCacheFile ==
    /\ Idle
    /\ \E p \in Suffixes : \E fs \in SUBSET Candidates(p, CacheRoots) :
           Found("FindCacheFile", p, fs, FindCacheFile(p))
    /\ UNCHANGED layout

CallFindRuntimeFile ==
    /\ Idle
    /\ \E p \in Suffixes : \E fs \in SUBSET Candidates(p, RuntimeRoots) :
           Found("FindRuntimeFile", p, fs, FindRuntimeFile(p))
    /\ UNCHANGED layout

CallMergeDataFiles ==
    /\ Idle
    /\ \E p \in Suffixes : \E fs \in SUBSET Candidates(p, DataRoots) :
           \E f \in Callbacks(Len(find(p, DataRoots, fs))) :
               Merged("MergeDataFiles", p, fs, f, MergeDataFiles(p, f, fs))
    /\ UNCHANGED layout

CallMergeDataFilesR ==
    /\ Idle
    /\ \E p \in Suffixes : \E fs \in SUBSET Candidates(p, DataRoots) :
           \E f \in Callbacks(Len(find(p, DataRoots, fs))) :
               Merged("MergeDataFilesR", p, fs, f, MergeDataFilesR(p, f, fs))
    /\ UNCHANGED layout

CallMergeConfigFiles ==
    /\ Idle
    /\ \E p \in Suffixes : \E fs \in SUBSET Candidates(p, ConfigRoots) :
           \E f \in Callbacks(Len(find(p, ConfigRoots, fs))) :
               Merged("MergeConfigFiles", p, fs, f, MergeConfigFiles(p, f, fs))
    /\ UNCHANGED layout

CallMergeConfigFilesR ==
    /\ Idle
    /\ \E p \in Suffixes : \E fs \in SUBSET Candidates(p, ConfigRoots) :
           \E f \in Callbacks(Len(find(p, ConfigRoots, fs))) :
               Merged("MergeConfigFilesR", p, fs, f, MergeConfigFilesR(p, f, fs))
    /\ UNCHANGED layout

\* The caller has used the result of its call.
Return ==
    /\ op # NoOp
    /\ op' = NoOp
    /\ UNCHANGED layout

\* The *_DIRS values of the lookups: unset, two directories, and a relative
\* segment between two mentions of one directory.
ConfigDirsValues ==
    {<<>>, <<"/", "a", ":", "/", "b">>, <<"/", "a", ":", "b", ":", "/", "a">>}
DataDirsValues == {<<>>, <<"/", "a">>}

Init ==
    /\ \E h \in {<<>>, <<"/", "h">>}, c \in ScalarValues, d \in ScalarValues,
          k \in {<<>>, <<"/", "x">>}, r \in {<<>>, <<"/", "x">>},
          cs \in ConfigDirsValues, ds \in DataDirsValues :
          env = [HOME |-> h, XDG_CONFIG_HOME |-> c, XDG_DATA_HOME |-> d,
                 XDG_CACHE_HOME |-> k, XDG_RUNTIME_DIR |-> r,
                 XDG_CONFIG_DIRS |-> cs, XDG_DATA_DIRS |-> ds]
    /\ Zero

Next ==
    \/ init
    \/ CallFindConfigFiles
    \/ CallFindDataFiles
    \/ CallFindConfigFile
    \/ CallFindDataFile
    \/ CallFindCacheFile
    \/ CallFindRuntimeFile
    \/ CallMergeDataFiles
    \/ CallMergeDataFilesR
    \/ CallMergeConfigFiles
    \/ CallMergeConfigFilesR
    \/ Return

Spec == Init /\ [][Next]_vars

(***************************************************************************)
(* Properties of the resolution (checked under SpecResolve).               *)
(***************************************************************************)
\* How many times the error e stands in errs.
CountErr(errs, e) == Cardinality({i \in DOMAIN errs : errs[i] = e})

\* The errors of errs that name the variable, in their order.
ErrorsFor(errs, name) == SelectSeq(errs, LAMBDA e : e.name = name)

Slash(s) == <<"/">> \o s

\* C1: after init(), home is empty with exactly one ErrHomeInvalid in Errors
\* exactly when HOME is not an absolute path; an absolute HOME is kept as
\* home and no ErrHomeInvalid is appended.
C1_HomeRejectedIffNotAbsolute ==
    pc = "ready" =>
        /\ ~IsAbs(env.HOME) =>
               home = <<>> /\ CountErr(Errors, ErrHomeInvalid) = 1
        /\ IsAbs(env.HOME) =>
               home = env.HOME /\ CountErr(Errors, ErrHomeInvalid) = 0

\* C2: with HOME absolute and XDG_CONFIG_HOME unset or empty, ConfigHome is
\* HOME followed by "/.config" and no error names XDG_CONFIG_HOME.
C2_ConfigHomeDefault ==
    (pc = "ready" /\ IsAbs(env.HOME) /\ env.XDG_CONFIG_HOME = <<>>) =>
        /\ ConfigHome = env.HOME \o Slash(<<".", "c", "o", "n", "f", "i", "g">>)
        /\ ErrorsFor(Errors, "XDG_CONFIG_HOME") = <<>>

\* C3: with HOME absolute, an unset or empty XDG_DATA_HOME resolves DataHome
\* to HOME + "/.local/share" and an unset or empty XDG_CACHE_HOME resolves
\* CacheHome to HOME + "/.cache".
C3_DataCacheHomeDefaults ==
    (pc = "ready" /\ IsAbs(env.HOME)) =>
        /\ env.XDG_DATA_HOME = <<>> =>
               DataHome = env.HOME
                              \o Slash(<<".", "l", "o", "c", "a", "l">>)
                              \o Slash(<<"s", "h", "a", "r", "e">>)
        /\ env.XDG_CACHE_HOME = <<>> =>
               CacheHome = env.HOME \o Slash(<<".", "c", "a", "c", "h", "e">>)

\* The string a *_DIRS variable is resolved from: its value, or the default.
DirsSource(name, def) == IF env[name] = <<>> THEN def ELSE env[name]

\* What C4 states of one list variable and the list resolved from it.
DirsFiltered(name, def, dirs) ==
    LET segs == Split(DirsSource(name, def), ":")
        bad  == SelectSeq(segs, LAMBDA x : ~IsAbs(x))
    IN  /\ dirs = SelectSeq(segs, IsAbs)
        /\ ErrorsFor(Errors, name) = [i \in 1..Len(bad) |-> ErrIgnoring(name, bad[i])]

\* C4: ConfigDirs and DataDirs are exactly the absolute segments of the
\* colon-split value (or default), in order and with repetitions kept, and
\* Errors holds exactly one "ignoring" error per other segment, in order;
\* a rejected segment does not end the processing of the later ones.
C4_DirsAreAbsoluteSegments ==
    pc = "ready" =>
        /\ DirsFiltered("XDG_CONFIG_DIRS", DefConfigDirs, ConfigDirs)
        /\ DirsFiltered("XDG_DATA_DIRS", DefDataDirs, DataDirs)

\* C4's case: a rejected segment, empty or relative, precedes a kept one, and
\* a value keeps the same directory twice.
C4_Witness ==
    /\ pc = "ready"
    /\ LET segs == Split(env.XDG_CONFIG_DIRS, ":")
       IN  \E i \in 1..Len(segs), j \in 1..Len(segs) :
               i < j /\ ~IsAbs(segs[i]) /\ IsAbs(segs[j]) /\ ConfigDirs = <<segs[j]>>
    /\ Len(ErrorsFor(Errors, "XDG_CONFIG_DIRS")) >= 1

\* What C5 states of one scalar variable and the directory resolved from it.
EmptyWithoutHome(name, dir) ==
    (home = <<>> /\ env[name] = <<>>) =>
        dir = <<>> /\ ErrorsFor(Errors, name) = <<ErrNoValue(name)>>

\* C5: with home unset and the scalar's variable unset or empty, each of
\* ConfigHome, DataHome and CacheHome is empty, never a partial path such as
\* "/.config", and exactly one "no value set for" error names its variable.
C5_NoPartialPathWithoutHome ==
    pc = "ready" =>
        /\ EmptyWithoutHome("XDG_CONFIG_HOME", ConfigHome)
        /\ EmptyWithoutHome("XDG_DATA_HOME", DataHome)
        /\ EmptyWithoutHome("XDG_CACHE_HOME", CacheHome)

\* C5's case: init() has run with HOME unset and no XDG_*_HOME variable set.
C5_Witness ==
    /\ pc = "ready"
    /\ env.HOME = <<>> /\ home = <<>>
    /\ env.XDG_CONFIG_HOME = <<>> /\ env.XDG_DATA_HOME = <<>>
    /\ env.XDG_CACHE_HOME = <<>>
    /\ ConfigHome = <<>> /\ DataHome = <<>> /\ CacheHome = <<>>
    /\ Len(Errors) >= 3

(***************************************************************************)
(* Properties of the lookups (checked under Spec).                         *)
(***************************************************************************)
ForwardMerges == {"MergeDataFiles", "MergeConfigFiles"}
BackwardMerges == {"MergeDataFilesR", "MergeConfigFilesR"}
Merges == ForwardMerges \cup BackwardMerges

\* The home directory and the directory list of the class a call is about.
HomeOf(name) ==
    CASE name \in {"MergeConfigFiles", "MergeConfigFilesR", "FindConfigFiles",
                   "FindConfigFile"} -> ConfigHome
      [] name \in {"MergeDataFiles", "MergeDataFilesR", "FindDataFiles",
                   "FindDataFile"} -> DataHome
      [] name = "FindCacheFile" -> CacheHome
      [] name = "FindRuntimeFile" -> RuntimeDir

DirsOf(name) ==
    CASE name \in {"MergeConfigFiles", "MergeConfigFilesR", "FindConfigFiles",
                   "FindConfigFile"} -> ConfigDirs
      [] name \in {"MergeDataFiles", "MergeDataFilesR", "FindDataFiles",
                   "FindDataFile"} -> DataDirs
      [] OTHER -> <<>>

\* root/p for the non-empty roots under which the file exists, in the order
\* of roots.
Matches(p, roots, fs) ==
    LET kept == SelectSeq(roots, LAMBDA r : r # <<>> /\ Join(r, p) \in fs)
    IN  [i \in 1..Len(kept) |-> Join(kept[i], p)]

\* The matches in the order a merge is to visit them: the home directory and
\* then the list, or the list from its last entry and then the home directory.
VisitOrder(o) ==
    IF o.name \in BackwardMerges
    THEN Matches(o.p, Reverse(DirsOf(o.name)) \o <<HomeOf(o.name)>>, o.fs)
    ELSE Matches(o.p, <<HomeOf(o.name)>> \o DirsOf(o.name), o.fs)

\* The MergeFunc returned nil on each of its first n invocations.
NilBefore(o, n) == \A j \in 1..(n - 1) : o.f[j] = "nil"

\* C6: when the MergeFunc returns Skip on a path, the merge returns nil, not
\* Skip, and the MergeFunc has been invoked on the paths up to that one and
\* on no later one.
C6_SkipStopsMerge ==
    op.name \in Merges =>
        \A i \in 1..Len(op.f) :
            (op.f[i] = Skip /\ NilBefore(op, i)) =>
                op.err = "nil" /\ op.calls = SubSeq(VisitOrder(op), 1, i)

\* C6's case: MergeConfigFiles over a home directory and two list entries
\* that all hold the file, the MergeFunc returning Skip on the first.
C6_Witness ==
    /\ op.name = "MergeConfigFiles"
    /\ Len(VisitOrder(op)) = 3
    /\ op.f[1] = Skip
    /\ op.calls = <<Join(ConfigHome, op.p)>>
    /\ op.err = "nil"

\* C7: when the MergeFunc returns an error other than Skip on a path, the
\* merge returns that error and the MergeFunc has been invoked on no later
\* path; when it returns nil on every found path, none found included, the
\* merge returns nil having visited them all.
C7_ErrorStopsMerge ==
    op.name \in Merges =>
        /\ \A i \in 1..Len(op.f) :
               (op.f[i] \notin {"nil", Skip} /\ NilBefore(op, i)) =>
                   op.err = op.f[i] /\ op.calls = SubSeq(VisitOrder(op), 1, i)
        /\ NilBefore(op, Len(op.f) + 1) =>
               op.err = "nil" /\ op.calls = VisitOrder(op)

\* C7's case: MergeDataFilesR over three matches, the MergeFunc returning nil
\* on the first and an error of its own on the second.
C7_Witness ==
    /\ op.name = "MergeDataFilesR"
    /\ Len(VisitOrder(op)) = 3
    /\ op.f[1] = "nil" /\ op.f[2] = "e2" /\ op.f[3] = "e1"
    /\ Len(op.calls) = 2
    /\ op.err = "e2"

C9_FindFirstReturnsFirstMatch ==
    op.name \in {"FindConfigFile", "FindDataFile", "FindCacheFile",
                 "FindRuntimeFile"} =>
        LET all == Matches(op.p, <<HomeOf(op.name)>> \o DirsOf(op.name), op.fs)
        IN  op.out = IF all = <<>> THEN <<>> ELSE Head(all)

\* C10: FindConfigFiles and FindDataFiles return exactly root/p for the
\* roots of [home] followed by the list under which the file exists, in
\* that order.
C10_FindAllReturnsEveryMatch ==
    op.name \in {"FindConfigFiles", "FindDataFiles"} =>
        op.out = Matches(op.p, <<HomeOf(op.name)>> \o DirsOf(op.name), op.fs)

(***************************************************************************)
(* The resolved layout holds absolute paths only (checked under            *)
(* SpecResolve).                                                           *)
(***************************************************************************)
\* The path is empty or begins with a slash.
EmptyOrAbsolute(dir) == dir = <<>> \/ dir[1] = "/"

\* What C11 states of a scalar variable set to a relative value.
RelativeRejected(name, dir) ==
    (env[name] # <<>> /\ env[name][1] # "/") =>
        dir = <<>> /\ ErrorsFor(Errors, name) = <<ErrNoValue(name)>>

\* C11: after init(), whatever HOME and the XDG_* variables hold, each of
\* ConfigHome, DataHome, CacheHome and RuntimeDir is empty or absolute and
\* every element of ConfigDirs and DataDirs is absolute; a variable set to a
\* non-empty relative value leaves its scalar empty, with one error for it,
\* not the relative value nor the default.
C11_ResolvedPathsAreAbsolute ==
    pc = "ready" =>
        /\ EmptyOrAbsolute(ConfigHome) /\ EmptyOrAbsolute(DataHome)
        /\ EmptyOrAbsolute(CacheHome) /\ EmptyOrAbsolute(RuntimeDir)
        /\ \A i \in DOMAIN ConfigDirs :
               ConfigDirs[i] # <<>> /\ ConfigDirs[i][1] = "/"
        /\ \A i \in DOMAIN DataDirs :
               DataDirs[i] # <<>> /\ DataDirs[i][1] = "/"
        /\ RelativeRejected("XDG_CONFIG_HOME", ConfigHome)
        /\ RelativeRejected("XDG_DATA_HOME", DataHome)
        /\ RelativeRejected("XDG_CACHE_HOME", CacheHome)
        /\ RelativeRejected("XDG_RUNTIME_DIR", RuntimeDir)

\* C11's case: init() has run with HOME and XDG_CONFIG_HOME relative, and
\* XDG_CONFIG_DIRS holding a relative segment beside an absolute one.
C11_Witness ==
    /\ pc = "ready"
    /\ env.HOME = <<"h">>
    /\ env.XDG_CONFIG_HOME = <<"x">> /\ ConfigHome = <<>>
    /\ env.XDG_RUNTIME_DIR = <<"x">> /\ RuntimeDir = <<>>
    /\ env.XDG_DATA_HOME = <<"/", "x">> /\ DataHome = <<"/", "x">>
    /\ env.XDG_CONFIG_DIRS = <<"a", ":", "/">> /\ ConfigDirs = <<<<"/">>>>
    /\ ErrNoValue("XDG_CONFIG_HOME") \in {Errors[i] : i \in DOMAIN Errors}

====
